---- MODULE Spec2Model ----
(***************************************************************************)
(* pgextras: the PgExtras session (src/scripts/__init__.py) and the CLI    *)
(* driver main() (src/pgextras.py), over a database client library whose   *)
(* calls (connect, cursor, execute, fetchall, close) may raise.            *)
(***************************************************************************)
EXTENDS Integers, Sequences, FiniteSets, TLC

VARIABLES
    mode,       \* "cli": main() drives the session; "lib": a caller that uses PgExtras directly
    pc,         \* "start", "loop", "exiting", "done"
    request,    \* args.methods as given on the command line
    methods,    \* args.methods as main() iterates it (after the expansion of all)
    idx,        \* position of the for loop in methods (1-based)
    ncalls,     \* number of direct calls made by the "lib" caller
    pg,         \* the PgExtras object: its fields
    conns,      \* connections opened by psycopg2.connect: "open" / "closed"
    cursors,    \* cursors created: "open" / "closed"
    banner,     \* the server's version banner (SELECT version())
    extension,  \* the server's present answer to the extension lookup
    log,        \* statements handed to cursor.execute, oldest first
    hist,       \* detection bookkeeping per capability getter
    executed,   \* main(): the attributes it called, in order
    last,       \* outcome of the latest call; rows: len(results) in main(), -1 if no list
    exitStatus, \* process exit status of main(): -1 while running
    probe,      \* "text" caller: the text it passes and what came of it
    sessions    \* "two" caller: its two PgExtras sessions and the server each one queries

vars == <<mode, pc, request, methods, idx, ncalls, pg, conns, cursors, banner,
          extension, log, hist, executed, last, exitStatus, probe, sessions>>

None == "None"

\* ------------------------------------------------------------------ bounds
MaxMethods == 2     \* longest request list
MaxCalls == 2       \* direct calls of the "lib" caller
MaxFaultAt == 4     \* a library fault hits the k-th execute() of an operation, k <= MaxFaultAt
MaxTextLen == 4     \* longest statement text handed to execute() by the "text" caller
MaxQueryLen == 150  \* longest query text a row of ps() holds
MaxTwoCalls == 3    \* calls the "two" caller makes on its two sessions together

\* ------------------------------------------------------------- the catalog
METHODS ==
    << "bloat", "blocking", "cache_hit", "calls", "index_usage", "locks",
       "long_running_queries", "outliers", "ps", "seq_scans", "total_index_size",
       "total_indexes_size", "table_size", "total_table_size", "unused_indexes",
       "vacuum_stats", "version", "all" >>

Range(s) == { s[i] : i \in 1..Len(s) }

RECURSIVE Remove(_, _)
\* list.remove(x): drops the first occurrence of x
Remove(s, x) ==
    IF s = << >> THEN << >>
    ELSE IF Head(s) = x THEN Tail(s)
    ELSE << Head(s) >> \o Remove(Tail(s), x)

\* Methods of PgExtras that take no argument and run one fixed template.
PlainMethods ==
    { "cache_hit", "index_usage", "vacuum_stats", "bloat", "seq_scans",
      "unused_indexes", "total_table_size", "total_indexes_size", "table_size",
      "index_size", "total_index_size", "table_indexes_size" }

\* Methods of PgExtras whose statement depends on the detected capabilities.
VersionedMethods == { "ps", "long_running_queries", "locks", "blocking" }
StatMethods == { "calls", "outliers" }
Getters == { "pg_stat_statement", "is_pg_at_least_nine_two", "is_pg_at_least_thirteen" }
ThresholdGetters == { "is_pg_at_least_nine_two", "is_pg_at_least_thirteen" }

\* Every attribute of a PgExtras object that can be called with no argument.
NoArgMethods ==
    PlainMethods \cup VersionedMethods \cup StatMethods \cup Getters
       \cup { "version", "close_db_connection", "get_missing_pg_stat_statement_error" }

\* Attributes that are plain data (calling them raises TypeError).
DataAttributes == { "dsn", "log_query", "truncate" }
\* Methods that need an argument (calling them with none raises TypeError).
ArgMethods == { "execute", "truncate_query" }
\* Properties: getattr evaluates them, the value is not callable.
Properties == { "cursor", "query_column", "time_column", "pid_column" }

Attributes == NoArgMethods \cup DataAttributes \cup ArgMethods \cup Properties

\* ----------------------------------------------------------------- server
postgres_9 == << 9, 2, 0 >>
postgres_13 == << 13 >>

\* A banner is a product word, a dotted number and the words after it:
\* "PostgreSQL 9.3.3 on x86_64" is Banner("PostgreSQL", <<9, 3, 3>>, <<"on", "x86_64">>).
Banner(p, n, r) == [ product |-> p, num |-> n, rest |-> r ]

Banners ==
    { Banner("PostgreSQL", << 9, 1, 5 >>, << "on", "x86_64" >>),
      Banner("PostgreSQL", << 9, 2 >>, << "on", "x86_64" >>),
      Banner("PostgreSQL", << 9, 3, 3 >>, << "on", "x86_64-apple-darwin13.0.0" >>),
      Banner("PostgreSQL", << 13, 0 >>, << "on", "x86_64" >>),
      Banner("PostgreSQL", << 13, 4 >>, << "on", "x86_64" >>),
      Banner("PostgreSQL", << 13, 4 >>, << "(Debian 13.4-1.pgdg100+1)", "on", "x86_64" >>) }

\* Outcomes of the extension lookup: no row, or one row whose column
\* available is true, false or null.
ExtOutcomes == { "norow", "true", "false", "null" }


\* ------------------------------------------------- version parsing, ordering
\* re.compile(r"PostgreSQL (\d+(\.\d+)+) on").match(text): anchored at the start,
\* the number needs at least one dot, and " on" must follow it directly.
RegexMatches(b) ==
    /\ b.product = "PostgreSQL"
    /\ Len(b.num) >= 2
    /\ b.rest # << >>
    /\ b.rest[1] = "on"

\* matches.groups()[0]
RegexGroup(b) == b.num

RECURSIVE StripZeros(_)
\* packaging.version: trailing zeros of the release do not count (9.2 == 9.2.0)
StripZeros(v) ==
    IF v # << >> /\ v[Len(v)] = 0 THEN StripZeros(SubSeq(v, 1, Len(v) - 1)) ELSE v

RECURSIVE TupleCmp(_, _)
\* Python's tuple comparison: -1, 0, 1
TupleCmp(a, b) ==
    IF a = << >> /\ b = << >> THEN 0
    ELSE IF a = << >> THEN -1
    ELSE IF b = << >> THEN 1
    ELSE IF Head(a) < Head(b) THEN -1
    ELSE IF Head(a) > Head(b) THEN 1
    ELSE TupleCmp(Tail(a), Tail(b))

\* parse_version(a) compared with parse_version(b)
VersionCmp(a, b) == TupleCmp(StripZeros(a), StripZeros(b))


\* ------------------------------------------------------- the client library
NoRef == 0          \* self._cursor / self._conn holding None

PyBool(b) == IF b THEN "True" ELSE "False"

\* A library fault: the k-th execute() of the running operation raises in
\* psycopg2.connect, connection.cursor, cursor.execute or cursor.fetchall;
\* "close": cursor.close raises.
NoFault == [ at |-> 0, kind |-> "none" ]
Faults ==
    { NoFault } \cup [ at : 1..MaxFaultAt, kind : { "connect", "cursor", "execute", "fetch" } ]
CloseFaults == { NoFault, [ at |-> 0, kind |-> "close" ] }

Faulty(st, env, kind) == env.fault.kind = kind /\ env.fault.at = st.n + 1

Raise(st, e) == [ st EXCEPT !.exc = e ]
Return(st, v) == [ st EXCEPT !.ret = v ]

\* A statement: the template and what was formatted into it.
Stmt(tpl) == [ tpl |-> tpl, query |-> "-", pid |-> "-", time |-> "-", idle |-> "-" ]

Row(cols, vals) == [ cols |-> cols, vals |-> vals ]

\* What the server answers to a statement.
Rows(statement, env) ==
    CASE statement.tpl = "VERSION" -> << Row(<< "version" >>, << env.banner >>) >>
      [] statement.tpl = "PG_STAT_STATEMENT" ->
            IF env.extension = "norow" THEN << >>
            ELSE << Row(<< "available" >>, << env.extension >>) >>
      [] OTHER -> IF env.empty THEN << >> ELSE << Row(<< statement.tpl >>, << "value" >>) >>

\* ------------------------------------------------------------ PgExtras
\* The one element of a singleton set: Only({ e(r) : r \in { v } }) is e
\* with r standing for the value v.
Only(S) == CHOOSE x \in S : TRUE

\* __init__
NewPgExtras ==
    [ _pg_stat_statement |-> None, _cursor |-> NoRef, _conn |-> NoRef,
      _is_pg_at_least_nine_two |-> None, _is_pg_at_least_thirteen |-> None,
      log_query |-> FALSE, truncate |-> TRUE ]

\* property cursor
cursor(st, env) ==
    IF st.exc # None THEN st
    ELSE IF st.pg._cursor = NoRef THEN
        IF Faulty(st, env, "connect") THEN Raise(st, "OperationalError")
        ELSE IF Faulty(st, env, "cursor")
             THEN Raise([ st EXCEPT !.conns = Append(@, "open"),
                                    !.pg._conn = Len(st.conns) + 1 ],
                        "InterfaceError")
        ELSE Return([ st EXCEPT !.conns = Append(@, "open"),
                                !.pg._conn = Len(st.conns) + 1,
                                !.cursors = Append(@, "open"),
                                !.pg._cursor = Len(st.cursors) + 1 ],
                    Len(st.cursors) + 1)
    ELSE Return(st, st.pg._cursor)

\* What the log keeps of a statement handed to cursor.execute
LogEntry(env, statement, by, status) ==
    [ pos |-> env.pos, op |-> env.op, by |-> by, sql |-> statement, status |-> status ]

\* A statement text is a sequence of characters; str.split() splits at these.
Whitespace == { " ", "\n", "\t" }

\* str.replace(old, ""): the text without its old characters
RECURSIVE Without(_, _)
Without(s, old) ==
    IF s = << >> THEN << >>
    ELSE IF Head(s) = old THEN Without(Tail(s), old)
    ELSE << Head(s) >> \o Without(Tail(s), old)

\* str.split() from the point where word has been read of the present token
RECURSIVE SplitFrom(_, _)
SplitFrom(s, word) ==
    IF s = << >> THEN IF word = << >> THEN << >> ELSE << word >>
    ELSE IF Head(s) \in Whitespace
         THEN (IF word = << >> THEN << >> ELSE << word >>) \o SplitFrom(Tail(s), << >>)
    ELSE SplitFrom(Tail(s), Append(word, Head(s)))

\* str.split(): the maximal runs of characters that are no whitespace
split(s) == SplitFrom(s, << >>)

\* sep.join(words)
RECURSIVE join(_, _)
join(sep, words) ==
    IF words = << >> THEN << >>
    ELSE IF Len(words) = 1 THEN words[1]
    ELSE words[1] \o << sep >> \o join(sep, Tail(words))

\* A statement given as text by the caller of execute()
TextStmt(text) ==
    [ tpl |-> "TEXT", query |-> "-", pid |-> "-", time |-> "-", idle |-> "-", text |-> text ]

\* execute(): sql = statement.replace("\n", ""); sql = " ".join(sql.split())
Normalized(statement) ==
    IF "text" \in DOMAIN statement
    THEN [ statement EXCEPT !.text = join(" ", split(Without(@, "\n"))) ]
    ELSE statement

\* execute() that hands the statement over and leaves the rows unfetched
executeNoFetch(st, env, statement, by) ==
    IF st.exc # None THEN st
    ELSE Only({
        IF c.exc # None THEN c
        ELSE IF c.cursors[c.pg._cursor] = "closed" THEN Raise(c, "InterfaceError")
        ELSE IF Faulty(c, env, "execute")
             THEN Raise([ c EXCEPT !.log = Append(@, LogEntry(env, Normalized(statement), by,
                                                              "failed")) ],
                        "DatabaseError")
        ELSE Return([ c EXCEPT !.log = Append(@, LogEntry(env, Normalized(statement), by,
                                                         "sent")),
                               !.n = @ + 1 ],
                    Rows(statement, env))
        : c \in { cursor(st, env) } })

\* execute(statement): cursor.execute, then cursor.fetchall
execute(st, env, statement, by) ==
    IF st.exc # None THEN st
    ELSE Only({
        IF c.exc # None THEN c
        ELSE IF c.cursors[c.pg._cursor] = "closed" THEN Raise(c, "InterfaceError")
        ELSE IF Faulty(c, env, "execute")
             THEN Raise([ c EXCEPT !.log = Append(@, LogEntry(env, Normalized(statement), by,
                                                              "failed")) ],
                        "DatabaseError")
        ELSE IF Faulty(c, env, "fetch")
             THEN Raise([ c EXCEPT !.log = Append(@, LogEntry(env, Normalized(statement), by,
                                                              "sent")) ],
                        "DatabaseError")
        ELSE Return([ c EXCEPT !.log = Append(@, LogEntry(env, Normalized(statement), by,
                                                         "fetched")),
                               !.n = @ + 1 ],
                    Rows(statement, env))
        : c \in { cursor(st, env) } })

version(st, env, by) == execute(st, env, Stmt("VERSION"), by)

\* Bookkeeping: getter g computed v and cached it / raised while detecting.
Detected(st, g, v) ==
    [ st EXCEPT !.hist.detected[g] = @ + 1,
                !.hist.first[g] = IF @ = None THEN v ELSE @ ]
Failed(st, g) == [ st EXCEPT !.hist.failed[g] = @ + 1 ]

\* pg_stat_statement(): what it does with the rows of the lookup
CacheExtension(r) ==
    IF r.exc # None THEN Failed(r, "pg_stat_statement")
    ELSE IF r.ret = << >> THEN Failed(Raise(r, "IndexError"), "pg_stat_statement")
    ELSE Return(Detected([ r EXCEPT !.pg._pg_stat_statement = PyBool(r.ret[1].vals[1] = "true") ],
                         "pg_stat_statement", PyBool(r.ret[1].vals[1] = "true")),
                PyBool(r.ret[1].vals[1] = "true"))

\* pg_stat_statement() that looks the extension up on every call
pg_stat_statement_nocache(st, env) ==
    IF st.exc # None THEN st
    ELSE CacheExtension(execute(st, env, Stmt("PG_STAT_STATEMENT"), "pg_stat_statement"))

pg_stat_statement(st, env) ==
    IF st.exc # None THEN st
    ELSE IF st.pg._pg_stat_statement = None
         THEN CacheExtension(execute(st, env, Stmt("PG_STAT_STATEMENT"), "pg_stat_statement"))
    ELSE Return(st, st.pg._pg_stat_statement)

\* get_missing_pg_stat_statement_error: Record(error)
MissingText == "pg_stat_statements extension needs to be installed in the public schema first."
get_missing_pg_stat_statement_error == Row(<< "error" >>, << MissingText >>)

\* parse_version(version) > parse_version(postgres_9)
AboveNineTwo(ver) == VersionCmp(ver, postgres_9) > 0

\* parse_version(version) >= parse_version("13")
AtLeastThirteen(ver) == VersionCmp(ver, postgres_13) >= 0

\* CacheNineTwo that takes a banner it cannot parse for a server below 9.2
CacheNineTwoLenient(r) ==
    IF r.exc # None THEN Failed(r, "is_pg_at_least_nine_two")
    ELSE IF ~RegexMatches(r.ret[1].vals[1])
         THEN Return(Detected([ r EXCEPT !.pg._is_pg_at_least_nine_two = "False" ],
                              "is_pg_at_least_nine_two", "False"),
                     "False")
    ELSE Return(Detected([ r EXCEPT !.pg._is_pg_at_least_nine_two =
                                        PyBool(AboveNineTwo(RegexGroup(r.ret[1].vals[1]))) ],
                         "is_pg_at_least_nine_two",
                         PyBool(AboveNineTwo(RegexGroup(r.ret[1].vals[1])))),
                PyBool(AboveNineTwo(RegexGroup(r.ret[1].vals[1]))))

\* is_pg_at_least_nine_two(): what it does with the rows of version()
CacheNineTwo(r) ==
    IF r.exc # None THEN Failed(r, "is_pg_at_least_nine_two")
    ELSE IF ~RegexMatches(r.ret[1].vals[1])
         THEN Failed(Raise(r, "AttributeError"), "is_pg_at_least_nine_two")
    ELSE Return(Detected([ r EXCEPT !.pg._is_pg_at_least_nine_two =
                                        PyBool(AboveNineTwo(RegexGroup(r.ret[1].vals[1]))) ],
                         "is_pg_at_least_nine_two",
                         PyBool(AboveNineTwo(RegexGroup(r.ret[1].vals[1])))),
                PyBool(AboveNineTwo(RegexGroup(r.ret[1].vals[1]))))

is_pg_at_least_nine_two(st, env) ==
    IF st.exc # None THEN st
    ELSE IF st.pg._is_pg_at_least_nine_two = None
         THEN CacheNineTwo(version(st, env, "is_pg_at_least_nine_two"))
    ELSE Return(st, st.pg._is_pg_at_least_nine_two)

\* is_pg_at_least_thirteen(): what it does with the rows of version()
CacheThirteen(r) ==
    IF r.exc # None THEN Failed(r, "is_pg_at_least_thirteen")
    ELSE IF ~RegexMatches(r.ret[1].vals[1])
         THEN Failed(Raise(r, "AttributeError"), "is_pg_at_least_thirteen")
    ELSE Return(Detected([ r EXCEPT !.pg._is_pg_at_least_thirteen =
                                        PyBool(AtLeastThirteen(RegexGroup(r.ret[1].vals[1]))) ],
                         "is_pg_at_least_thirteen",
                         PyBool(AtLeastThirteen(RegexGroup(r.ret[1].vals[1])))),
                PyBool(AtLeastThirteen(RegexGroup(r.ret[1].vals[1]))))

\* is_pg_at_least_thirteen() that asks for the version on every call
is_pg_at_least_thirteen_nocache(st, env) ==
    IF st.exc # None THEN st
    ELSE CacheThirteen(version(st, env, "is_pg_at_least_thirteen"))

is_pg_at_least_thirteen(st, env) ==
    IF st.exc # None THEN st
    ELSE IF st.pg._is_pg_at_least_thirteen = None
         THEN CacheThirteen(version(st, env, "is_pg_at_least_thirteen"))
    ELSE Return(st, st.pg._is_pg_at_least_thirteen)

\* A value picked by the outcome r of a threshold getter
Pick(r, yes, no) ==
    IF r.exc # None THEN r ELSE Return(r, IF r.ret = "True" THEN yes ELSE no)

\* property query_column
query_column(st, env) == Pick(is_pg_at_least_nine_two(st, env), "query", "current_query")

\* property time_column
time_column(st, env) == Pick(is_pg_at_least_thirteen(st, env), "total_exec_time", "total_time")

\* pid_column that follows the threshold of version 13
pid_column_thirteen(st, env) == Pick(is_pg_at_least_thirteen(st, env), "pid", "procpid")

\* property pid_column
pid_column(st, env) == Pick(is_pg_at_least_nine_two(st, env), "pid", "procpid")

\* truncate_query(column_name): the SQL expression it builds
truncate_query(self, column_name) ==
    IF self.truncate
    THEN [ expr |-> "CASE WHEN length < THEN column ELSE substr || marker END",
           column |-> column_name, below |-> 120, from |-> 0, count |-> 120,
           marker |-> << ".", "." >> ]
    ELSE [ expr |-> "column", column |-> column_name ]

\* substr(string, from, count) of PostgreSQL: the characters at the positions
\* from .. from + count - 1, positions counted from 1
substr(string, from, count) ==
    SubSeq(string, IF from < 1 THEN 1 ELSE from,
           IF from + count - 1 > Len(string) THEN Len(string) ELSE from + count - 1)

\* What the server renders for a row whose column holds value
EvalColumn(e, value) ==
    IF e.expr = "column" THEN value
    ELSE IF Len(value) < e.below THEN value
    ELSE substr(value, e.from, e.count) \o e.marker

\* the idle filter of ps and long_running_queries
IdleFilter(st, env) ==
    Pick(is_pg_at_least_nine_two(st, env), "AND state <> 'idle'", "AND current_query <> '<IDLE>'")

\* ---------------------------------------------------------- the operations
\* StatQuery without the test of pg_stat_statement()'s answer
StatQueryUnguarded(st, env, tpl) ==
    Only({
        IF a.exc # None THEN a
        ELSE Only({ Only({
                 IF t.exc # None THEN t
                 ELSE execute(t, env,
                              [ Stmt(tpl) EXCEPT !.query = truncate_query(t.pg, q.ret),
                                                 !.time = t.ret ],
                              env.op)
                 : t \in { time_column(q, env) } })
             : q \in { query_column(a, env) } })
        : a \in { pg_stat_statement(st, env) } })

\* calls() and outliers(): tpl is "CALLS" or "OUTLIERS"
StatQuery(st, env, tpl) ==
    Only({
        IF a.exc # None THEN a
        ELSE IF a.ret = "True"
        THEN Only({ Only({
                 IF t.exc # None THEN t
                 ELSE execute(t, env,
                              [ Stmt(tpl) EXCEPT !.query = truncate_query(t.pg, q.ret),
                                                 !.time = t.ret ],
                              env.op)
                 : t \in { time_column(q, env) } })
             : q \in { query_column(a, env) } })
        ELSE Return(a, << get_missing_pg_stat_statement_error >>)
        : a \in { pg_stat_statement(st, env) } })

calls(st, env) == StatQuery(st, env, "CALLS")

outliers(st, env) == StatQuery(st, env, "OUTLIERS")

blocking(st, env) ==
    Only({ Only({
        IF p.exc # None THEN p
        ELSE execute(p, env, [ Stmt("BLOCKING") EXCEPT !.query = q.ret, !.pid = p.ret ], env.op)
        : p \in { pid_column(q, env) } })
    : q \in { query_column(st, env) } })

locks(st, env) ==
    Only({ Only({
        IF q.exc # None THEN q
        ELSE execute(q, env, [ Stmt("LOCKS") EXCEPT !.query = q.ret, !.pid = p.ret ], env.op)
        : q \in { query_column(p, env) } })
    : p \in { pid_column(st, env) } })

long_running_queries(st, env) ==
    Only({ Only({ Only({
        IF q.exc # None THEN q
        ELSE execute(q, env,
                     [ Stmt("LONG_RUNNING_QUERIES") EXCEPT !.query = q.ret, !.pid = p.ret,
                                                           !.idle = i.ret ],
                     env.op)
        : q \in { query_column(p, env) } })
    : p \in { pid_column(i, env) } })
    : i \in { IdleFilter(st, env) } })

ps(st, env) ==
    Only({ Only({ Only({
        IF p.exc # None THEN p
        ELSE execute(p, env,
                     [ Stmt("PS") EXCEPT !.query = truncate_query(p.pg, q.ret), !.pid = p.ret,
                                         !.idle = i.ret ],
                     env.op)
        : p \in { pid_column(q, env) } })
    : q \in { query_column(i, env) } })
    : i \in { IdleFilter(st, env) } })

\* The template a plain method runs: sql.<NAME>
Template(name) ==
    CASE name = "cache_hit" -> "CACHE_HIT"
      [] name = "index_usage" -> "INDEX_USAGE"
      [] name = "vacuum_stats" -> "VACUUM_STATS"
      [] name = "bloat" -> "BLOAT"
      [] name = "seq_scans" -> "SEQ_SCANS"
      [] name = "unused_indexes" -> "UNUSED_INDEXES"
      [] name = "total_table_size" -> "TOTAL_TABLE_SIZE"
      [] name = "total_indexes_size" -> "TOTAL_INDEXES_SIZE"
      [] name = "table_size" -> "TABLE_SIZE"
      [] name = "index_size" -> "INDEX_SIZE"
      [] name = "total_index_size" -> "TOTAL_INDEX_SIZE"
      [] name = "table_indexes_size" -> "TABLE_INDEXES_SIZE"

\* cache_hit(), index_usage(), ...: return self.execute(sql.<NAME>)
PlainQuery(st, env, name) == execute(st, env, Stmt(Template(name)), env.op)

\* close_db_connection(): the connection is closed only after cursor.close()
\* has returned
close_db_connection(st, env) ==
    IF st.pg._cursor # NoRef /\ env.fault.kind = "close" THEN Raise(st, "Error")
    ELSE Return([ st EXCEPT
                    !.cursors = IF st.pg._cursor # NoRef
                                THEN [ @ EXCEPT ![st.pg._cursor] = "closed" ] ELSE @,
                    !.conns = IF st.pg._conn # NoRef
                              THEN [ @ EXCEPT ![st.pg._conn] = "closed" ] ELSE @ ],
                None)

\* pg.<name>() for a method that takes no argument
CallMethod(st, env, name) ==
    CASE name \in PlainMethods -> PlainQuery(st, env, name)
      [] name = "calls" -> calls(st, env)
      [] name = "outliers" -> outliers(st, env)
      [] name = "blocking" -> blocking(st, env)
      [] name = "locks" -> locks(st, env)
      [] name = "long_running_queries" -> long_running_queries(st, env)
      [] name = "ps" -> ps(st, env)
      [] name = "version" -> version(st, env, env.op)
      [] name = "pg_stat_statement" -> pg_stat_statement(st, env)
      [] name = "is_pg_at_least_nine_two" -> is_pg_at_least_nine_two(st, env)
      [] name = "is_pg_at_least_thirteen" -> is_pg_at_least_thirteen(st, env)
      [] name = "close_db_connection" -> close_db_connection(st, env)
      [] name = "get_missing_pg_stat_statement_error" ->
            Return(st, get_missing_pg_stat_statement_error)

\* Evaluating a property of pg
GetProperty(st, env, name) ==
    CASE name = "cursor" -> cursor(st, env)
      [] name = "query_column" -> query_column(st, env)
      [] name = "time_column" -> time_column(st, env)
      [] name = "pid_column" -> pid_column(st, env)


\* ------------------------------------------------------------------ state
\* Names a command line may carry: catalog entries, the aggregate, attributes
\* of the session that are no catalog entry, and a name that is no attribute.
RequestNames ==
    { "version", "ps", "calls", "all", "index_size", "close_db_connection", "bogus" }

\* What a direct caller of the class calls.
LibNames ==
    { "calls", "pg_stat_statement", "is_pg_at_least_nine_two", "is_pg_at_least_thirteen" }

Requests == UNION { [ 1..n -> RequestNames ] : n \in 1..MaxMethods }

NewHist ==
    [ first |-> [ g \in Getters |-> None ],
      detected |-> [ g \in Getters |-> 0 ],
      failed |-> [ g \in Getters |-> 0 ] ]

NoCall ==
    [ op |-> None, exc |-> None, ret |-> None, sent |-> << >>, shown |-> None, rows |-> -1 ]

\* No text passed, no second session
NoProbe == [ call |-> None, text |-> << >>, out |-> << >>, done |-> FALSE ]
NoSessions == << >>

\* The running state an operation works on, and what it reads.
St == [ pg |-> pg, conns |-> conns, cursors |-> cursors, log |-> log, hist |-> hist,
        exc |-> None, ret |-> None, n |-> 0 ]

Env(pos, op, fault, empty) ==
    [ banner |-> banner, extension |-> extension, fault |-> fault, pos |-> pos, op |-> op,
      empty |-> empty ]

Commit(st) ==
    /\ pg' = st.pg
    /\ conns' = st.conns
    /\ cursors' = st.cursors
    /\ log' = st.log
    /\ hist' = st.hist

Sent(st) == SubSeq(st.log, Len(log) + 1, Len(st.log))

Init ==
    /\ mode \in { "cli", "lib" }
    /\ pc = IF mode = "cli" THEN "start" ELSE "open"
    /\ request \in IF mode = "cli" THEN Requests ELSE { << >> }
    /\ methods = request
    /\ idx = 1
    /\ ncalls = 0
    /\ pg = NewPgExtras
    /\ conns = << >>
    /\ cursors = << >>
    /\ banner \in Banners
    /\ extension \in ExtOutcomes
    /\ log = << >>
    /\ hist = NewHist
    /\ executed = << >>
    /\ last = NoCall
    /\ exitStatus = -1
    /\ probe = NoProbe
    /\ sessions = NoSessions

\* ------------------------------------------------------------------ main()
\* with PgExtras(dsn=args.dsn) as pg: the expansion of ["all"]
MainEnter ==
    /\ mode = "cli" /\ pc = "start"
    /\ methods' = IF methods = << "all" >> THEN Remove(METHODS, "all") ELSE methods
    /\ pc' = "loop"
    /\ UNCHANGED << probe, sessions,
                    mode, request, idx, ncalls, pg, conns, cursors, banner, extension, log,
                    hist, executed, last, exitStatus >>

\* bool(results) for what method name returned
Truthy(name, ret) ==
    CASE name = "close_db_connection" -> FALSE
      [] name \in Getters -> ret = "True"
      [] name = "get_missing_pg_stat_statement_error" -> TRUE
      [] OTHER -> ret # << >>

\* Methods that return a list of rows
RowMethods == PlainMethods \cup VersionedMethods \cup StatMethods \cup { "version" }

\* len(results) where results is a list of rows, else -1
RowCount(method, ret) == IF method \in RowMethods THEN Len(ret) ELSE -1

\* main() without the test of results before the table is built
RenderUnchecked(method, r) ==
    IF r.exc # None
    THEN [ st |-> r, called |-> TRUE, exc |-> r.exc, shown |-> None, rows |-> -1 ]
    ELSE IF method \in RowMethods /\ r.ret = << >>
    THEN \* results[0] of an empty list
         [ st |-> r, called |-> TRUE, exc |-> "IndexError", shown |-> None, rows |-> 0 ]
    ELSE IF method = "get_missing_pg_stat_statement_error"
    THEN [ st |-> r, called |-> TRUE, exc |-> "AttributeError", shown |-> None, rows |-> -1 ]
    ELSE IF method \notin RowMethods
    THEN [ st |-> r, called |-> TRUE, exc |-> "TypeError", shown |-> None, rows |-> -1 ]
    ELSE [ st |-> r, called |-> TRUE, exc |-> None, shown |-> "table",
           rows |-> RowCount(method, r.ret) ]

\* What main() does with the outcome r of func() for method
Render(method, r) ==
    IF r.exc # None
    THEN [ st |-> r, called |-> TRUE, exc |-> r.exc, shown |-> None, rows |-> -1 ]
    ELSE IF ~Truthy(method, r.ret)
    THEN [ st |-> r, called |-> TRUE, exc |-> None, shown |-> "No results",
           rows |-> RowCount(method, r.ret) ]
    ELSE IF method = "get_missing_pg_stat_statement_error"
    THEN \* results[0] is a str: it has no _fields
         [ st |-> r, called |-> TRUE, exc |-> "AttributeError", shown |-> None, rows |-> -1 ]
    ELSE IF method \in Getters
    THEN \* results is True: it cannot be indexed
         [ st |-> r, called |-> TRUE, exc |-> "TypeError", shown |-> None, rows |-> -1 ]
    ELSE [ st |-> r, called |-> TRUE, exc |-> None, shown |-> "table",
           rows |-> RowCount(method, r.ret) ]

\* getattr(pg, method) on a property: it is evaluated inside the try, and its
\* value is not callable
CallProperty(g) ==
    [ st |-> g, called |-> FALSE,
      exc |-> IF g.exc = "AttributeError" THEN "SystemExit"
              ELSE IF g.exc # None THEN g.exc ELSE "TypeError",
      shown |-> None, rows |-> -1 ]

\* One pass of the for loop over method = methods[idx]
LoopBody(method, env) ==
    IF method \notin Attributes
    THEN \* getattr raises AttributeError: raise SystemExit(1, str(error))
         [ st |-> St, called |-> FALSE, exc |-> "SystemExit", shown |-> None,
           rows |-> -1 ]
    ELSE IF method \in Properties THEN CallProperty(GetProperty(St, env, method))
    ELSE IF method \in DataAttributes \cup ArgMethods
    THEN [ st |-> St, called |-> FALSE, exc |-> "TypeError", shown |-> None, rows |-> -1 ]
    ELSE Render(method, CallMethod(St, env, method))

MainStep ==
    /\ mode = "cli" /\ pc = "loop" /\ idx <= Len(methods)
    /\ \E fault \in Faults \cup CloseFaults, empty \in BOOLEAN :
          \E b \in { LoopBody(methods[idx], Env(idx, methods[idx], fault, empty)) } :
              /\ Commit(b.st)
              /\ executed' = IF b.called THEN Append(executed, methods[idx]) ELSE executed
              /\ last' = [ op |-> methods[idx], exc |-> b.exc,
                           ret |-> IF b.exc = None THEN b.st.ret ELSE None,
                           sent |-> Sent(b.st), shown |-> b.shown, rows |-> b.rows ]
              /\ pc' = IF b.exc # None THEN "exiting" ELSE "loop"
              /\ idx' = IF b.exc # None THEN idx ELSE idx + 1
    /\ UNCHANGED << probe, sessions,
                    mode, request, methods, ncalls, banner, extension, exitStatus >>

\* The exception in flight when the with block is left
Pending == IF pc = "exiting" THEN last.exc ELSE None

\* Leaving the with block: __exit__ calls close_db_connection; an exception
\* in flight, or one raised by __exit__, ends the process with status 1.
MainExit ==
    /\ mode = "cli"
    /\ pc = "exiting" \/ (pc = "loop" /\ idx > Len(methods))
    /\ \E fault \in CloseFaults :
          \E c \in { close_db_connection(St, Env(idx, "__exit__", fault, FALSE)) } :
              /\ Commit(c)
              /\ last' = [ op |-> "__exit__",
                           exc |-> IF c.exc # None THEN c.exc ELSE Pending,
                           ret |-> None, sent |-> << >>, shown |-> None, rows |-> -1 ]
              /\ exitStatus' = IF c.exc # None \/ Pending # None THEN 1 ELSE 0
    /\ pc' = "done"
    /\ UNCHANGED << probe, sessions,
                    mode, request, methods, idx, ncalls, banner, extension, executed >>

\* ------------------------------------------------- a direct user of PgExtras
\* pg.<name>() inside a with block, by a caller that catches what it raises
LibCall ==
    /\ mode = "lib" /\ pc = "open" /\ ncalls < MaxCalls
    /\ \E name \in LibNames, fault \in Faults :
          \E r \in { CallMethod(St, Env(ncalls + 1, name, fault, FALSE), name) } :
              /\ Commit(r)
              /\ last' = [ op |-> name, exc |-> r.exc,
                           ret |-> IF r.exc = None THEN r.ret ELSE None,
                           sent |-> Sent(r), shown |-> None, rows |-> -1 ]
    /\ ncalls' = ncalls + 1
    /\ UNCHANGED << probe, sessions,
                    mode, pc, request, methods, idx, banner, extension, executed, exitStatus >>

\* __exit__ of the caller's with block
LibExit ==
    /\ mode = "lib" /\ pc = "open"
    /\ \E fault \in CloseFaults :
          \E c \in { close_db_connection(St, Env(ncalls + 1, "__exit__", fault, FALSE)) } :
              /\ Commit(c)
              /\ last' = [ op |-> "__exit__", exc |-> c.exc, ret |-> None, sent |-> << >>,
                           shown |-> None, rows |-> -1 ]
    /\ pc' = "done"
    /\ UNCHANGED << probe, sessions,
                    mode, request, methods, idx, ncalls, banner, extension, executed,
                    exitStatus >>

\* ------------------------------------------------------------- environment
\* Someone installs or removes pg_stat_statements while the session lives.
ExtensionChange ==
    /\ pc # "done"
    /\ \E e \in ExtOutcomes \ { extension } : extension' = e
    /\ UNCHANGED << probe, sessions,
                    mode, pc, request, methods, idx, ncalls, pg, conns, cursors, banner, log,
                    hist, executed, last, exitStatus >>

Next == MainEnter \/ MainStep \/ MainExit \/ LibCall \/ LibExit \/ ExtensionChange

Spec == Init /\ [][Next]_vars


\* --------------------------------------------- a caller with a text of its own
\* Characters of a statement text, and the texts the caller passes
Chars == { "a", " ", "\n", "\t" }
Texts == UNION { [ 1..n -> Chars ] : n \in 0..MaxTextLen }

\* The query text of length n a row of pg_stat_activity holds
QueryText(n) == [ i \in 1..n |-> IF i % 2 = 1 THEN "q" ELSE "r" ]

InitText ==
    /\ mode = "text"
    /\ pc = "open"
    /\ request = << >>
    /\ methods = << >>
    /\ idx = 1
    /\ ncalls = 0
    /\ pg \in { [ NewPgExtras EXCEPT !.truncate = t ] : t \in BOOLEAN }
    /\ conns = << >>
    /\ cursors = << >>
    /\ banner \in Banners
    /\ extension \in ExtOutcomes
    /\ log = << >>
    /\ hist = NewHist
    /\ executed = << >>
    /\ last = NoCall
    /\ exitStatus = -1
    /\ probe \in { [ NoProbe EXCEPT !.call = "execute", !.text = t ] : t \in Texts }
                 \cup { [ NoProbe EXCEPT !.call = "ps", !.text = QueryText(n) ]
                        : n \in 0..MaxQueryLen }
    /\ sessions = NoSessions

\* pg.execute(text): probe.out is the text handed to cursor.execute
ExecuteText ==
    /\ mode = "text" /\ pc = "open" /\ probe.call = "execute" /\ ~probe.done
    /\ \E r \in { execute(St, Env(1, "execute", NoFault, FALSE), TextStmt(probe.text),
                          "execute") } :
          /\ Commit(r)
          /\ last' = [ op |-> "execute", exc |-> r.exc, ret |-> r.ret, sent |-> Sent(r),
                       shown |-> None, rows |-> -1 ]
          /\ probe' = [ probe EXCEPT !.done = TRUE, !.out = r.log[Len(r.log)].sql.text ]
    /\ UNCHANGED << sessions, mode, pc, request, methods, idx, ncalls, banner, extension,
                    executed, exitStatus >>

\* pg.ps() while a row of pg_stat_activity holds the query text probe.text:
\* probe.out is what the server renders for the query column of that row
PsText ==
    /\ mode = "text" /\ pc = "open" /\ probe.call = "ps" /\ ~probe.done
    /\ \E r \in { ps(St, Env(1, "ps", NoFault, FALSE)) } :
          /\ Commit(r)
          /\ last' = [ op |-> "ps", exc |-> r.exc,
                       ret |-> IF r.exc = None THEN r.ret ELSE None, sent |-> Sent(r),
                       shown |-> None, rows |-> -1 ]
          /\ probe' = [ probe EXCEPT
                          !.done = TRUE,
                          !.out = IF r.exc = None
                                  THEN EvalColumn(r.log[Len(r.log)].sql.query, probe.text)
                                  ELSE << >> ]
    /\ UNCHANGED << sessions, mode, pc, request, methods, idx, ncalls, banner, extension,
                    executed, exitStatus >>

NextText == ExecuteText \/ PsText

SpecText == InitText /\ [][NextText]_vars


\* ------------------------------------------------ a caller with two sessions
\* What the caller calls on either session.
TwoNames == { "calls", "pg_stat_statement", "is_pg_at_least_nine_two", "is_pg_at_least_thirteen" }

\* The servers a dsn may name: a banner and an answer to the extension lookup
TwoServers == { [ banner |-> b, extension |-> e ] : b \in Banners, e \in { "true", "false" } }

\* PgExtras(dsn=...) for the dsn of server: a session not used yet
NewSession(server) ==
    [ server |-> server, pg |-> NewPgExtras, conns |-> << >>, cursors |-> << >>,
      log |-> << >>, hist |-> NewHist, ncalls |-> 0, last |-> NoCall ]

\* The running state and the surroundings of a call on session x
StOf(x) ==
    [ pg |-> x.pg, conns |-> x.conns, cursors |-> x.cursors, log |-> x.log, hist |-> x.hist,
      exc |-> None, ret |-> None, n |-> 0 ]

EnvOf(x, name, fault) ==
    [ banner |-> x.server.banner, extension |-> x.server.extension, fault |-> fault,
      pos |-> x.ncalls + 1, op |-> name, empty |-> FALSE ]

\* Session x after its call of name that ended as r
Called(x, name, r) ==
    [ x EXCEPT !.pg = r.pg, !.conns = r.conns, !.cursors = r.cursors, !.log = r.log,
               !.hist = r.hist, !.ncalls = @ + 1,
               !.last = [ op |-> name, exc |-> r.exc,
                          ret |-> IF r.exc = None THEN r.ret ELSE None,
                          sent |-> SubSeq(r.log, Len(x.log) + 1, Len(r.log)),
                          shown |-> None, rows |-> -1 ] ]

\* A store of fields that keeps the capability caches in the class
StoreShared(ss, s, name, r) ==
    [ t \in DOMAIN ss |->
        IF t = s THEN Called(ss[s], name, r)
        ELSE [ ss[t] EXCEPT !.pg._pg_stat_statement = r.pg._pg_stat_statement,
                            !.pg._is_pg_at_least_nine_two = r.pg._is_pg_at_least_nine_two,
                            !.pg._is_pg_at_least_thirteen = r.pg._is_pg_at_least_thirteen ] ]

\* self.<field> = ...: the fields written are those of the object s itself
StoreSession(ss, s, name, r) == [ ss EXCEPT ![s] = Called(ss[s], name, r) ]

InitTwo ==
    /\ mode = "two"
    /\ pc = "open"
    /\ request = << >>
    /\ methods = << >>
    /\ idx = 1
    /\ ncalls = 0
    /\ pg = NewPgExtras
    /\ conns = << >>
    /\ cursors = << >>
    /\ sessions \in [ 1..2 -> { NewSession(server) : server \in TwoServers } ]
    /\ banner = sessions[1].server.banner
    /\ extension = sessions[1].server.extension
    /\ log = << >>
    /\ hist = NewHist
    /\ executed = << >>
    /\ last = NoCall
    /\ exitStatus = -1
    /\ probe = NoProbe

\* pg.<name>() on session s, by a caller that catches what it raises
TwoCall(s) ==
    /\ mode = "two" /\ pc = "open"
    /\ sessions[1].ncalls + sessions[2].ncalls < MaxTwoCalls
    /\ \E name \in TwoNames :
          \E r \in { CallMethod(StOf(sessions[s]), EnvOf(sessions[s], name, NoFault), name) } :
              sessions' = StoreSession(sessions, s, name, r)
    /\ UNCHANGED << probe, mode, pc, request, methods, idx, ncalls, pg, conns, cursors, banner,
                    extension, log, hist, executed, last, exitStatus >>

NextTwo == \E s \in 1..2 : TwoCall(s)

SpecTwo == InitTwo /\ [][NextTwo]_vars


\* ================================================================== claims
Catalog == Range(METHODS)
CatalogOperations == Catalog \ { "all" }

\* Number of statements the getter g has handed to the server
SentBy(g) == Cardinality({ i \in 1..Len(log) : log[i].by = g })

\* The cache field of getter g
Cache(g) ==
    CASE g = "pg_stat_statement" -> pg._pg_stat_statement
      [] g = "is_pg_at_least_nine_two" -> pg._is_pg_at_least_nine_two
      [] g = "is_pg_at_least_thirteen" -> pg._is_pg_at_least_thirteen

\* Position of the first requested name that is no catalog entry, 0 if none
FirstUnknown(ms) ==
    IF \A i \in 1..Len(ms) : ms[i] \in Catalog THEN 0
    ELSE CHOOSE i \in 1..Len(ms) :
            /\ ms[i] \notin Catalog
            /\ \A j \in 1..(i - 1) : ms[j] \in Catalog

IsPrefix(a, b) == Len(a) <= Len(b) /\ a = SubSeq(b, 1, Len(a))

\* C1: when the extension check yields false, calls() and outliers() return,
\* without raising, exactly one row whose only column is error and whose text
\* is not empty, and they hand the server nothing but at most the one
\* extension lookup.
C1_DegradedResult ==
    (last.op \in StatMethods /\ pg._pg_stat_statement = "False") =>
        /\ last.exc = None
        /\ Len(last.ret) = 1
        /\ last.ret[1].cols = << "error" >>
        /\ last.ret[1].vals[1] # ""
        /\ Len(last.sent) <= 1
        /\ \A i \in 1..Len(last.sent) : last.sent[i].sql.tpl = "PG_STAT_STATEMENT"

C1_Witness ==
    /\ last.op \in StatMethods
    /\ pg._pg_stat_statement = "False"
    /\ last.exc = None
    /\ Len(last.sent) = 1

\* C2: a cached threshold is true exactly when the version the server reports
\* is >= 9.2 (for is_pg_at_least_nine_two) or >= 13 (for
\* is_pg_at_least_thirteen) in dotted-numeric order.
C2_Thresholds ==
    /\ pg._is_pg_at_least_nine_two # None =>
          pg._is_pg_at_least_nine_two = PyBool(VersionCmp(banner.num, << 9, 2 >>) >= 0)
    /\ pg._is_pg_at_least_thirteen # None =>
          pg._is_pg_at_least_thirteen = PyBool(VersionCmp(banner.num, << 13 >>) >= 0)

\* What memoization leaves in every state: one completed detection at most,
\* the cache holding its value, and a returning call returning that value.
C3_MemoState ==
    \A g \in Getters :
        /\ hist.detected[g] <= 1
        /\ (Cache(g) # None) <=> (hist.detected[g] = 1)
        /\ Cache(g) = hist.first[g]
        /\ (last.op = g /\ last.exc = None) => last.ret = hist.first[g]

\* What no step does once a cache is set: change it, or send for its getter.
C3_MemoStep ==
    \A g \in Getters :
        Cache(g) # None => (Cache(g)' = Cache(g) /\ SentBy(g)' = SentBy(g))

\* C3: every capability getter is memoized: it completes a detection at most
\* once, its cache holds the value computed then, a call that returns returns
\* that value, and once the cache is set the getter sends nothing and the
\* cache never changes, whatever the server would answer now.
C3_Memoized == [] C3_MemoState /\ [][C3_MemoStep]_vars

C3_Witness ==
    /\ last.op = "pg_stat_statement"
    /\ last.exc = None
    /\ last.sent = << >>
    /\ last.ret = "True"
    /\ extension # "true"

\* C4 as stated: capability detection sends the version query at most once
\* per session.
C4_VersionQueriedOnce ==
    SentBy("is_pg_at_least_nine_two") + SentBy("is_pg_at_least_thirteen") <= 1

\* C4 as amended: no parsed version is cached; each threshold getter sends
\* its own version query, at most once for the one detection it completes and
\* once per detection attempt that raised.
C4_VersionOncePerGetter ==
    \A g \in ThresholdGetters :
        /\ hist.detected[g] <= 1
        /\ SentBy(g) <= hist.detected[g] + hist.failed[g]
        /\ SentBy(g) >= hist.detected[g]

C4_Witness ==
    /\ last.op = "calls"
    /\ last.exc = None
    /\ Len(last.sent) = 4
    /\ SentBy("is_pg_at_least_nine_two") = 1
    /\ SentBy("is_pg_at_least_thirteen") = 1

\* C5: with the first name that is no catalog entry at position i, only the
\* operations before i are executed, in request order, and the invocation
\* ends with a non-zero exit status.
C5_FailFast ==
    (mode = "cli" /\ FirstUnknown(methods) # 0) =>
        /\ IsPrefix(executed, SubSeq(methods, 1, FirstUnknown(methods) - 1))
        /\ pc = "done" => exitStatus # 0

\* C6: every catalog entry but all is an operation of the session, main()
\* calls nothing that is no catalog entry, and a requested name that is no
\* catalog entry raises the unknown-operation error.
C6_ClosedCatalog ==
    /\ CatalogOperations \subseteq NoArgMethods
    /\ \A i \in 1..Len(executed) : executed[i] \in CatalogOperations
    /\ (mode = "cli" /\ pc \in { "loop", "exiting" } /\ last.op # None
          /\ last.op \notin Catalog) => last.exc = "SystemExit"

\* C7: once the session scope has been left, every connection the session
\* opened is closed.
C7_ConnectionReleased ==
    pc = "done" => \A i \in 1..Len(conns) : conns[i] = "closed"

\* C8: a session creates at most one connection and at most one cursor, and
\* every connection that is open is the one the session refers to.
C8_OneConnection ==
    /\ Len(conns) <= 1
    /\ Len(cursors) <= 1
    /\ \A i \in 1..Len(conns) : conns[i] = "open" => pg._conn = i

\* C9: main() runs the requested operations strictly in request order: the
\* statements in the log are those of the requested operations in
\* non-decreasing position, none belongs to a position the loop has not
\* reached, and every statement that is followed by another one had its rows
\* fetched before that one was sent.
C9_RequestOrder ==
    mode = "cli" =>
        /\ \A i \in 1..Len(log) :
              /\ log[i].pos \in 1..Len(methods)
              /\ log[i].pos <= idx
              /\ log[i].op = methods[log[i].pos]
        /\ \A i, j \in 1..Len(log) :
              i < j => (log[i].pos <= log[j].pos /\ log[i].status = "fetched")

C9_Witness ==
    /\ mode = "cli"
    /\ Len(methods) = 2
    /\ Len(log) >= 4
    /\ log[1].pos = 1
    /\ log[1].by # log[1].op
    /\ log[Len(log)].pos = 2
    /\ log[Len(log)].status = "fetched"

\* C10: a request list made of catalog entries and the name all raises no
\* unknown-operation error and never calls all itself, and the list ["all"]
\* that ends normally has executed every catalog entry but all once, in
\* catalog order.
C10_AllAccepted ==
    (mode = "cli" /\ \A i \in 1..Len(request) : request[i] \in Catalog) =>
        /\ last.exc # "SystemExit"
        /\ \A i \in 1..Len(executed) : executed[i] # "all"
        /\ (request = << "all" >> /\ pc = "done" /\ exitStatus = 0) =>
              executed = Remove(METHODS, "all")


\* Whitespace-separated tokens of a text
Tokens(s) == split(s)

\* C11: the text execute() hands to cursor.execute holds no newline and no two
\* adjacent spaces, and its whitespace-separated tokens are, in order, those of
\* the text the caller passed: no whitespace run, a lone newline included,
\* merges the two tokens around it.
C11_Normalization ==
    (probe.call = "execute" /\ probe.done) =>
        /\ \A i \in DOMAIN probe.out : probe.out[i] # "\n"
        /\ \A i \in 1..(Len(probe.out) - 1) : ~(probe.out[i] = " " /\ probe.out[i + 1] = " ")
        /\ Tokens(probe.out) = Tokens(probe.text)

\* C12: with truncation enabled a query text shorter than 120 characters is
\* rendered as it is and any other as its first 120 characters followed by
\* "..." (123 characters for a text of 150); with truncation disabled every
\* text is rendered unchanged.
C12_Truncation ==
    (probe.call = "ps" /\ probe.done /\ last.exc = None) =>
        probe.out = IF pg.truncate /\ Len(probe.text) >= 120
                    THEN SubSeq(probe.text, 1, 120) \o << ".", ".", "." >>
                    ELSE probe.text

\* The column a statement reads the query text from
QueryOf(sql) ==
    IF sql.tpl \in { "PS", "CALLS", "OUTLIERS" } THEN sql.query.column ELSE sql.query

\* sql names the process and the query text in the vocabulary the session detected
SessionVocabulary(sql) ==
    IF Cache("is_pg_at_least_nine_two") = "True"
    THEN sql.pid = "pid" /\ QueryOf(sql) = "query"
    ELSE sql.pid = "procpid" /\ QueryOf(sql) = "current_query"

\* sql carries the idle filter of the vocabulary the session detected
SessionIdleFilter(sql) ==
    IF Cache("is_pg_at_least_nine_two") = "True"
    THEN sql.idle = "AND state <> 'idle'"
    ELSE sql.idle = "AND current_query <> '<IDLE>'"

\* sql reads the cumulative time from the column the session detected
SessionTimeColumn(sql) ==
    IF Cache("is_pg_at_least_thirteen") = "True"
    THEN sql.time = "total_exec_time"
    ELSE sql.time = "total_time"

\* C13 as stated: every statement of ps, long_running_queries, locks and
\* blocking uses pid, query and the filter state <> 'idle' when the session
\* detected at-least-9.2, and procpid, current_query and the filter
\* current_query <> '<IDLE>' otherwise; every statement of calls and outliers
\* uses total_exec_time when the session detected at-least-13, else total_time.
C13_AllFiltered ==
    \A i \in 1..Len(log) :
        /\ log[i].sql.tpl \in { "PS", "LONG_RUNNING_QUERIES", "LOCKS", "BLOCKING" } =>
              SessionVocabulary(log[i].sql) /\ SessionIdleFilter(log[i].sql)
        /\ log[i].sql.tpl \in { "CALLS", "OUTLIERS" } => SessionTimeColumn(log[i].sql)

\* C13: every statement of ps, long_running_queries, locks and blocking names
\* the process and the query text in one vocabulary, pid and query when the
\* session detected at-least-9.2 and procpid and current_query otherwise, the
\* same for all statements of the session; the statements of ps and
\* long_running_queries carry the idle filter of that vocabulary, those of
\* locks and blocking carry no idle filter; every statement of calls and
\* outliers uses total_exec_time when the session detected at-least-13 and
\* total_time otherwise.
C13_Vocabulary ==
    \A i \in 1..Len(log) :
        /\ log[i].sql.tpl \in { "PS", "LONG_RUNNING_QUERIES" } =>
              SessionVocabulary(log[i].sql) /\ SessionIdleFilter(log[i].sql)
        /\ log[i].sql.tpl \in { "LOCKS", "BLOCKING" } =>
              SessionVocabulary(log[i].sql) /\ log[i].sql.idle = "-"
        /\ log[i].sql.tpl \in { "CALLS", "OUTLIERS" } => SessionTimeColumn(log[i].sql)

\* One session has sent locks, ps and calls in the vocabulary of a server below 9.2
C13_Witness ==
    \E i, j, k \in 1..Len(log) :
        /\ log[i].sql.tpl = "LOCKS" /\ log[i].sql.pid = "procpid"
        /\ log[j].sql.tpl = "PS" /\ log[j].sql.idle = "AND current_query <> '<IDLE>'"
        /\ log[k].sql.tpl = "CALLS" /\ log[k].sql.time = "total_time"

\* Templates resolved from the detected thresholds
Templated == { "PS", "LONG_RUNNING_QUERIES", "LOCKS", "BLOCKING", "CALLS", "OUTLIERS" }

\* C14: while the server's banner does not match the pattern, both threshold
\* caches stay unset and no templated statement is sent; a threshold getter,
\* and ps, long_running_queries, locks, blocking, and calls and outliers with
\* the extension present, end with an error, which main() does not catch: it
\* leaves the loop and the process ends with status 1.
C14_ParseFailure ==
    ~RegexMatches(banner) =>
        /\ Cache("is_pg_at_least_nine_two") = None
        /\ Cache("is_pg_at_least_thirteen") = None
        /\ \A i \in 1..Len(log) : log[i].sql.tpl \notin Templated
        /\ last.op \in ThresholdGetters \cup VersionedMethods => last.exc # None
        /\ (last.op \in StatMethods /\ Cache("pg_stat_statement") = "True") => last.exc # None
        /\ (mode = "cli" /\ last.op \in VersionedMethods \cup StatMethods /\ last.exc # None) =>
              pc = "exiting"
        /\ (mode = "cli" /\ pc = "done" /\ last.exc # None) => exitStatus = 1

\* ps() has fetched a banner that does not match and failed on it
C14_Witness ==
    /\ ~RegexMatches(banner)
    /\ mode = "cli" /\ last.op = "ps" /\ last.exc = "AttributeError"
    /\ Len(last.sent) = 1 /\ last.sent[1].sql.tpl = "VERSION" /\ last.sent[1].status = "fetched"

\* calls() with the extension present has failed on a banner that does not match
C14_WitnessCalls ==
    /\ ~RegexMatches(banner)
    /\ last.op = "calls" /\ last.exc = "AttributeError" /\ Cache("pg_stat_statement") = "True"

\* The latest call ended on the extension lookup, whose rows were fetched
LookupCompleted ==
    /\ last.op \in { "pg_stat_statement" } \cup StatMethods
    /\ last.sent # << >>
    /\ last.sent[Len(last.sent)].sql.tpl = "PG_STAT_STATEMENT"
    /\ last.sent[Len(last.sent)].status = "fetched"

\* C15: whenever the extension lookup completes without a transport error,
\* whatever it returned (no row, or a row whose availability is true, false
\* or null), pg_stat_statement() returns a boolean without raising, and
\* calls() and outliers() that go no further than the lookup return the
\* degraded result without raising.
C15_AbsenceNoFault ==
    LookupCompleted =>
        /\ last.exc = None
        /\ last.op = "pg_stat_statement" => last.ret \in { "True", "False" }
        /\ last.op \in StatMethods => last.ret = << get_missing_pg_stat_statement_error >>

\* The cached capability fields of session x
Capabilities(x) ==
    << x.pg._pg_stat_statement, x.pg._is_pg_at_least_nine_two, x.pg._is_pg_at_least_thirteen >>

\* What getter g detects on server
DetectedOn(g, server) ==
    CASE g = "pg_stat_statement" -> PyBool(server.extension = "true")
      [] g = "is_pg_at_least_nine_two" -> PyBool(AboveNineTwo(RegexGroup(server.banner)))
      [] g = "is_pg_at_least_thirteen" -> PyBool(AtLeastThirteen(RegexGroup(server.banner)))

\* The cache field of getter g in session x
CacheOf(x, g) ==
    CASE g = "pg_stat_statement" -> x.pg._pg_stat_statement
      [] g = "is_pg_at_least_nine_two" -> x.pg._is_pg_at_least_nine_two
      [] g = "is_pg_at_least_thirteen" -> x.pg._is_pg_at_least_thirteen

\* Every value a session has cached or a getter has returned is the one
\* detected on the server of that session.
C16_OwnServer ==
    \A s \in DOMAIN sessions :
        /\ \A g \in Getters :
              CacheOf(sessions[s], g) # None =>
                 CacheOf(sessions[s], g) = DetectedOn(g, sessions[s].server)
        /\ (sessions[s].last.op \in Getters /\ sessions[s].last.exc = None) =>
              sessions[s].last.ret = DetectedOn(sessions[s].last.op, sessions[s].server)

\* A step leaves the capability fields of every session it makes no call on as they are.
C16_Frame ==
    \A s \in DOMAIN sessions :
        sessions'[s].ncalls = sessions[s].ncalls =>
            Capabilities(sessions'[s]) = Capabilities(sessions[s])

\* C16: with two sessions alive, a call on one session changes no cached
\* capability field of the other, and what a session caches and what its
\* getters return is what was detected on the server that session queries,
\* in every interleaving of the calls on the two sessions.
C16_Isolated == [] C16_OwnServer /\ [][C16_Frame]_vars

\* Both sessions have detected, on different servers, and cached opposite answers
C16_Witness ==
    /\ mode = "two"
    /\ sessions[1].pg._is_pg_at_least_thirteen = "True"
    /\ sessions[2].pg._is_pg_at_least_thirteen = "False"
    /\ sessions[1].ncalls = 2 /\ sessions[2].ncalls = 1

\* Whenever the latest operation of main() returned zero rows: nothing was
\* raised and no table rendered for it, and the loop goes on behind it.
C17_EmptyState ==
    (mode = "cli" /\ last.rows = 0) =>
        /\ last.exc = None
        /\ last.shown = "No results"
        /\ pc = "loop" /\ exitStatus = -1
        /\ idx >= 2 /\ methods[idx - 1] = last.op
        /\ executed # << >> /\ executed[Len(executed)] = last.op

\* The next pass of the loop after an empty result takes the operation
\* requested right after it; the loop ends only when none is left.
C17_Continues ==
    (mode = "cli" /\ last.rows = 0 /\ (idx' # idx \/ pc' # pc)) =>
        IF idx <= Len(methods) THEN pc' # "done" /\ last'.op = methods[idx]
        ELSE pc' = "done"

\* C17: when a requested operation returns zero rows, main() raises nothing
\* for it, renders no table for it, and goes on with the operations requested
\* after it, in the order requested.
C17_EmptyNoOp == [] C17_EmptyState /\ [][C17_Continues]_vars

\* ps, requested first of two, has returned zero rows and the loop stands at the second
C17_Witness ==
    /\ mode = "cli" /\ last.op = "ps" /\ last.rows = 0
    /\ Len(methods) = 2 /\ idx = 2 /\ pc = "loop"

====
